---- MODULE Spec2Model ----
(***************************************************************************)
(* The read-through cache proxy (package cacheproxy): CacheProxy.GetHit,   *)
(* Set and Remove over the RedisCache adaptor and a singleflight group.    *)
(* Every goroutine is a process; a process takes one step per blocking     *)
(* operation (store read, singleflight Do, origin getter, store write).    *)
(***************************************************************************)
EXTENDS Integers, Sequences, FiniteSets, TLC

\* ---- bounds of the model ----
NCallers == 2
MaxTasks == 1
MaxTime == 3
MaxFlights == 2
MaxCalls == 2
MaxOffset == 2

Callers == 1..NCallers
Tasks == (NCallers + 1)..(NCallers + MaxTasks)
Procs == Callers \cup Tasks
None == 0

Keys == {"", "k"}
\* What the origin may hold, and what callers may Set.
Payloads == {"", "b"}
Values == {"", "a"}

\* ---- errors ----
NoErr == "nil"
OriginErr == "origin failed"
StoreErr == "store failed"
CtxErr == "context canceled"
ErrInvalidKey == "empty key"
fastRequeryErr == "need fast requery"
NilVal == "<nil>"

\* ---- CacheContext: the per-call policy ----
\* The offsets and expirations are in ticks of the clock.
\* A caller sets both expirations or leaves both unset (zero).
CacheContext ==
    {cc \in [NeedForceRefresh : BOOLEAN, NeedCacheRefresh : BOOLEAN,
             RefreshOffset : {1}, FastRefreshOffset : {0},
             ExpiredTime : {0, 3}, EmptyExpiredTime : {0, 1}] :
        (cc.ExpiredTime = 0) <=> (cc.EmptyExpiredTime = 0)}

NoContext ==
    [NeedForceRefresh |-> FALSE, NeedCacheRefresh |-> FALSE,
     RefreshOffset |-> 1, FastRefreshOffset |-> 0,
     ExpiredTime |-> 3, EmptyExpiredTime |-> 1]

\* ---- StringView and the store ----
ZeroTime == 0
NoExpiry == -1

StringView(ctime, nfr, isNil, data) ==
    [Ctime |-> ctime, NeedFastRequery |-> nfr, IsNil |-> isNil, Data |-> data]

NilView == StringView(ZeroTime, FALSE, TRUE, "")

\* A redis entry: present or not, the serialized StringView, the expiration.
NoEntry == [present |-> FALSE, sv |-> NilView, expireAt |-> NoExpiry]

VARIABLES
    pc,            \* position of every process
    call,          \* arguments of the call a process is running
    ctxDone,       \* the caller's context has been cancelled
    res,           \* what getResource returned to the process
    ret,           \* what the call returned
    m,             \* singleflight: key -> process running the fetch, or None
    got,           \* singleflight: the (val, err) handed to a process by Do
    store,         \* redis: key -> entry
    now,           \* the clock
    flightSeq,     \* number of origin executions started so far
    calls,         \* number of calls of the proxy started so far
    h              \* history of the call or task a process is running

vars == <<pc, call, ctxDone, res, ret, m, got, store, now, flightSeq, calls, h>>

NoCall == [op |-> "none", key |-> "", c |-> NoContext, value |-> ""]
NoRes == [data |-> "", needFastRequery |-> FALSE, err |-> NoErr, panic |-> FALSE]
NoRet == [data |-> "", hit |-> FALSE, err |-> NoErr]
NoGot == [set |-> FALSE, val |-> NilVal, err |-> NoErr]
NoFetched == [data |-> "", needFastRequery |-> FALSE, err |-> NoErr]
NoWrote == [done |-> FALSE, sv |-> NilView, ttl |-> 0, err |-> NoErr]
NoSeen == [sv |-> NilView, exist |-> FALSE]

\* The history of a call or task:
\*   seq          the number of the call, in the order the calls began
\*   before       what the store held for the key when the call began
\*   seen         what the call's store read returned
\*   readErr      the error of the call's store read
\*   cancelled    the caller's context was cancelled when the call came to
\*                its write
\*   flightOf     the origin execution the process shared, joined: as a waiter
\*   fetched      what the getter returned for that execution
\*   originBy     getter invocations made on behalf of the process
\*   storeReads, storeWrites   store commands issued by the process
\*   wrote        the write the process issued: applied (done) or failed (err)
\*   owner        for a task, the caller whose running call spawned it
NoHist ==
    [seq |-> 0, before |-> NoSeen, seen |-> NoSeen, readErr |-> NoErr, cancelled |-> FALSE,
     flightOf |-> 0, joined |-> FALSE,
     fetched |-> NoFetched, originBy |-> 0, storeReads |-> 0, storeWrites |-> 0,
     wrote |-> NoWrote, owner |-> None]

\* What redis may hold for a key when the process starts, at the second
\* tick: nothing, or what an earlier setData wrote at the first tick under
\* NoContext.
StoredBefore ==
    {NoEntry}
    \cup {[present |-> TRUE, sv |-> StringView(1, nfr, FALSE, "a"),
           expireAt |-> 1 + NoContext.ExpiredTime] : nfr \in BOOLEAN}

Init ==
    /\ pc = [p \in Procs |-> IF p \in Callers THEN "idle" ELSE "free"]
    /\ call = [p \in Procs |-> NoCall]
    /\ ctxDone = [p \in Procs |-> FALSE]
    /\ res = [p \in Procs |-> NoRes]
    /\ ret = [p \in Procs |-> NoRet]
    /\ m = [k \in Keys |-> None]
    /\ got = [p \in Procs |-> NoGot]
    /\ store \in [Keys -> StoredBefore]
    /\ store[""] = NoEntry
    /\ now = 2
    /\ flightSeq = 0
    /\ calls = 0
    /\ h = [p \in Procs |-> NoHist]

\* An IsExpire that ignores NeedFastRequery.
IsExpireIgnoresFlag(v, normalOffset, fastOffset, t) ==
    IF v.Ctime = ZeroTime THEN FALSE ELSE v.Ctime + normalOffset < t

\* ---- StringView.IsExpire ----
IsExpire(v, normalOffset, fastOffset, t) ==
    IF v.Ctime = ZeroTime
    THEN FALSE
    ELSE LET offset == IF v.NeedFastRequery THEN fastOffset ELSE normalOffset
         IN  v.Ctime + offset < t

\* ---- RedisCache over the redis client ----
\* An entry is visible until its expiration passes.
Live(e, t) == e.present /\ (e.expireAt = NoExpiry \/ t < e.expireAt)

\* redis SET key value [expiration]: an expiration that is not positive
\* sets the key with no expiration.
RedisExpireAt(expired, t) == IF expired > 0 THEN t + expired ELSE NoExpiry

\* RedisCache.Get: (StringView{IsNil: true}, false) on redis.Nil.
RedisCacheGet(k, t) ==
    IF Live(store[k], t)
    THEN [sv |-> store[k].sv, exist |-> TRUE]
    ELSE [sv |-> NilView, exist |-> FALSE]

\* A Set that gives every value the expiration of a non-empty one.
SelectExpiredLong(value, expiredTime, emptyExpiredTime) == expiredTime

\* RedisCache.Set: the expiration is chosen by the emptiness of the data.
SelectExpired(value, expiredTime, emptyExpiredTime) ==
    IF Len(value.Data) = 0 THEN emptyExpiredTime ELSE expiredTime

\* A Set that keeps the entry the key already has (SET NX).
RedisCacheSetNX(k, value, expiredTime, emptyExpiredTime, t) ==
    IF Live(store[k], t)
    THEN store
    ELSE [store EXCEPT ![k] =
            [present |-> TRUE, sv |-> value,
             expireAt |-> IF Len(value.Data) = 0 THEN t + emptyExpiredTime
                          ELSE t + expiredTime]]

RedisCacheSet(k, value, expiredTime, emptyExpiredTime, t) ==
    [store EXCEPT ![k] =
        [present |-> TRUE, sv |-> value,
         expireAt |-> RedisExpireAt(
             SelectExpired(value, expiredTime, emptyExpiredTime), t)]]

\* A Remove that leaves the key in place.
RedisCacheRemoveKeeps(k) == store

\* RedisCache.Remove: DEL of a key, held or not.
RedisCacheRemove(k) == [store EXCEPT ![k] = NoEntry]

\* A key that is never refused.
invalidKeyNever(key) == FALSE

\* RedisCache.Set and RedisCache.Remove: if len(key) <= 0.
invalidKey(key) == Len(key) <= 0

\* A setData that loses the payload.
setDataViewNoData(data, needFastRequery, t) ==
    [Ctime |-> t, NeedFastRequery |-> needFastRequery, IsNil |-> FALSE, Data |-> ""]

\* A setData that leaves the creation time unset.
setDataViewNoTime(data, needFastRequery, t) ==
    [Ctime |-> ZeroTime, NeedFastRequery |-> needFastRequery, IsNil |-> FALSE,
     Data |-> data]

\* A setData that marks every value for fast requery.
setDataViewFast(data, needFastRequery, t) ==
    [Ctime |-> t, NeedFastRequery |-> TRUE, IsNil |-> FALSE, Data |-> data]

\* A setData that marks the value absent.
setDataViewAbsent(data, needFastRequery, t) ==
    [Ctime |-> t, NeedFastRequery |-> needFastRequery, IsNil |-> TRUE, Data |-> data]

\* CacheProxy.setData: the StringView that is written.
setDataView(data, needFastRequery, t) ==
    StringView(t, needFastRequery, FALSE, data)

\* ---- CacheProxy.getResource ----
\* A function that does not pass the flag on.
flightFnDropsFlag(out) ==
    IF out.err # NoErr THEN [set |-> TRUE, val |-> NilVal, err |-> out.err]
    ELSE [set |-> TRUE, val |-> out.data, err |-> NoErr]

\* The function handed to singleflight.Do, applied to what getter.Get returned.
flightFn(out) ==
    IF out.err # NoErr THEN [set |-> TRUE, val |-> NilVal, err |-> out.err]
    ELSE IF out.needFastRequery
         THEN [set |-> TRUE, val |-> out.data, err |-> fastRequeryErr]
         ELSE [set |-> TRUE, val |-> out.data, err |-> NoErr]

\* The code after Do returns: res := val.(string) panics on a nil val.
getResource(g) ==
    IF g.val = NilVal
    THEN [data |-> "", needFastRequery |-> FALSE, err |-> g.err, panic |-> TRUE]
    ELSE IF g.err # NoErr
         THEN IF g.err = fastRequeryErr
              THEN [data |-> g.val, needFastRequery |-> TRUE, err |-> NoErr,
                    panic |-> FALSE]
              ELSE [data |-> "", needFastRequery |-> FALSE, err |-> g.err,
                    panic |-> FALSE]
         ELSE [data |-> g.val, needFastRequery |-> FALSE, err |-> NoErr,
               panic |-> FALSE]

\* A group that forgets the fetch in flight: every call runs the getter.
DoNeverJoins(k) == FALSE

\* singleflight.Do: a call for a key that has a fetch in flight joins it.
DoJoins(k) == m[k] # None

\* What getter.Get may return when run under the context of process p.
GetterOutcomes(p) ==
    [data : Payloads, needFastRequery : BOOLEAN, err : {NoErr}]
    \cup [data : {""}, needFastRequery : {FALSE},
          err : {OriginErr} \cup (IF ctxDone[p] THEN {CtxErr} ELSE {})]

\* What a store operation may fail with under the context of process p.
StoreOutcomes(p) ==
    {NoErr, StoreErr} \cup (IF ctxDone[p] THEN {CtxErr} ELSE {})

\* ---- goroutines ----
HasFree == \E t \in Tasks : pc[t] = "free"
NextFree ==
    CHOOSE t \in Tasks : pc[t] = "free" /\ \A u \in Tasks : pc[u] = "free" => t <= u

\* A process dies with the panic of any goroutine nobody recovers from.
Crashed == \E t \in Tasks : pc[t] = "panicked"

Resting(c) == pc[c] \in {"idle", "done", "panicked"}

\* A caller may start a call. Callers are interchangeable: they are numbered
\* in the order of their first calls.
MayCall(c) ==
    /\ ~Crashed
    /\ Resting(c)
    /\ calls < MaxCalls
    /\ \A d \in Callers : d < c => pc[d] # "idle"

\* A GetHit without the guard on the key.
EmptyKeyUnguarded(key) == FALSE

\* GetHit: the empty-key guard.
EmptyKey(key) == Len(key) = 0

Upd(f, p, v) == [f EXCEPT ![p] = v]
Upd2(f, p, v, q, w) == [f EXCEPT ![p] = v, ![q] = w]

Ret(data, hit, err) == [data |-> data, hit |-> hit, err |-> err]
Locals(data, nfr) ==
    [data |-> data, needFastRequery |-> nfr, err |-> NoErr, panic |-> FALSE]
CallOf(op, key, cc, value) == [op |-> op, key |-> key, c |-> cc, value |-> value]

\* The history when caller c begins a call on key: the tasks of its earlier
\* call are no longer tasks of its running call.
HistAtCall(c, key) ==
    [q \in Procs |->
        IF q = c THEN [NoHist EXCEPT !.seq = calls + 1,
                                     !.before = RedisCacheGet(key, now)]
        ELSE IF h[q].owner = c THEN [h[q] EXCEPT !.owner = None]
        ELSE h[q]]

\* The history of a process after it issued a write that ended with e.
Written(hp, sv, ttl, e) ==
    [hp EXCEPT !.storeWrites = @ + 1,
               !.wrote = [done |-> e = NoErr, sv |-> sv, ttl |-> ttl, err |-> e]]

\* The context of a call is of no use once the call has ended.
CtxAfter(c) ==
    ctxDone' = IF pc'[c] \in {"done", "panicked"}
               THEN Upd(ctxDone, c, FALSE)
               ELSE ctxDone

\* The policies Set is called with: it only reads the expirations.
SetContext == {cc \in CacheContext : ~cc.NeedForceRefresh /\ ~cc.NeedCacheRefresh}

\* The policies GetHit is called with: both expirations are set.
GetHitContext == {cc \in CacheContext : cc.ExpiredTime > 0}

\* ---- CacheProxy.GetHit ----
GetHit(c, cc, key) ==
    /\ MayCall(c)
    /\ calls' = calls + 1
    /\ call' = Upd(call, c, CallOf("GetHit", key, cc, ""))
    /\ res' = Upd(res, c, NoRes)
    /\ got' = Upd(got, c, NoGot)
    /\ h' = HistAtCall(c, key)
    /\ IF EmptyKey(key)
       THEN /\ pc' = Upd(pc, c, "done")
            /\ ret' = Upd(ret, c, Ret("", FALSE, NoErr))
       ELSE /\ pc' = Upd(pc, c, IF cc.NeedForceRefresh THEN "fetch" ELSE "read")
            /\ ret' = Upd(ret, c, NoRet)
    /\ UNCHANGED <<ctxDone, m, store, now, flightSeq>>

\* A read whose error is dropped.
readFailedIgnored(e) == FALSE

\* if err != nil after p.cache.Get (line 96).
readFailed(e) == e # NoErr

\* A hit reported as a miss.
hitReturnAsMiss(sv) == [data |-> sv.Data, hit |-> FALSE, err |-> NoErr]

\* return sv.String(), true, nil (lines 117 and 133).
hitReturn(sv) == Ret(sv.Data, TRUE, NoErr)

\* A refresh of every hit, stale or not.
needRefreshAlways(cc, sv, t) == cc.NeedCacheRefresh

\* A refresh of every stale hit, asked for or not.
needRefreshIgnoresFlag(cc, sv, t) ==
    IsExpire(sv, cc.RefreshOffset, cc.FastRefreshOffset, t)

\* The refresh goroutine is started (lines 115-116).
needRefresh(cc, sv, t) ==
    cc.NeedCacheRefresh /\ IsExpire(sv, cc.RefreshOffset, cc.FastRefreshOffset, t)

\* sv, exist, err := p.cache.Get(ctx, key) and what follows it up to the next
\* blocking operation (lines 95-99 and 115-133).
CacheGet(c) ==
    /\ ~Crashed
    /\ pc[c] = "read"
    /\ \E e \in StoreOutcomes(c) :
         LET r == RedisCacheGet(call[c].key, now)
             cc == call[c].c
             hc == [h[c] EXCEPT !.storeReads = @ + 1,
                                !.readErr = e,
                                !.seen = IF e = NoErr THEN r ELSE NoSeen]
         IN  IF readFailed(e)
             THEN /\ pc' = Upd(pc, c, "done")
                  /\ ret' = Upd(ret, c, Ret("", FALSE, e))
                  /\ h' = Upd(h, c, hc)
                  /\ UNCHANGED <<call, res, got>>
             ELSE IF ~r.exist
             THEN /\ pc' = Upd(pc, c, "fetch")
                  /\ h' = Upd(h, c, hc)
                  /\ UNCHANGED <<ret, call, res, got>>
             ELSE IF needRefresh(cc, r.sv, now)
             THEN /\ HasFree
                  /\ pc' = Upd2(pc, c, "done", NextFree, "fetch")
                  /\ ret' = Upd(ret, c, hitReturn(r.sv))
                  /\ call' = Upd(call, NextFree,
                                 CallOf("refresh", call[c].key, cc, ""))
                  /\ res' = Upd(res, NextFree, NoRes)
                  /\ got' = Upd(got, NextFree, NoGot)
                  /\ h' = Upd2(h, c, hc, NextFree, [NoHist EXCEPT !.owner = c])
             ELSE /\ pc' = Upd(pc, c, "done")
                  /\ ret' = Upd(ret, c, hitReturn(r.sv))
                  /\ h' = Upd(h, c, hc)
                  /\ UNCHANGED <<call, res, got>>
    /\ CtxAfter(c)
    /\ UNCHANGED <<m, store, now, flightSeq, calls>>

\* ---- CacheProxy.getResource ----
\* p.getGroup.Do(key, fn): start the fetch, or join the one in flight.
Do(p) ==
    /\ ~Crashed
    /\ pc[p] = "fetch"
    /\ LET k == call[p].key
       IN  IF DoJoins(k)
           THEN /\ pc' = Upd(pc, p, "wait")
                /\ h' = Upd(h, p, [h[p] EXCEPT !.flightOf = h[m[k]].flightOf,
                                               !.joined = TRUE])
                /\ UNCHANGED <<m, flightSeq>>
           ELSE /\ flightSeq < MaxFlights
                /\ pc' = Upd(pc, p, "origin")
                /\ m' = Upd(m, k, p)
                /\ flightSeq' = flightSeq + 1
                /\ h' = Upd(h, p, [h[p] EXCEPT !.flightOf = flightSeq + 1,
                                               !.originBy = @ + 1])
    /\ UNCHANGED <<call, ctxDone, res, ret, got, store, now, calls>>

\* Who is handed the result of the fetch that p runs.
Sharers(p) ==
    {p} \cup {w \in Procs : pc[w] = "wait" /\ ~got[w].set
                            /\ call[w].key = call[p].key}

\* getter.Get returns inside fn: the fetch completes, the key is forgotten
\* and every process in the call is handed the same (val, err).
GetterReturn(p) ==
    /\ ~Crashed
    /\ pc[p] = "origin"
    /\ \E out \in GetterOutcomes(p) :
         /\ got' = [q \in Procs |-> IF q \in Sharers(p) THEN flightFn(out) ELSE got[q]]
         /\ h' = [q \in Procs |->
                    IF q \in Sharers(p) THEN [h[q] EXCEPT !.fetched = out] ELSE h[q]]
    /\ pc' = Upd(pc, p, "wait")
    /\ m' = Upd(m, call[p].key, None)
    /\ UNCHANGED <<call, ctxDone, res, ret, store, now, flightSeq, calls>>

\* A force-refresh path that asks for the fetch again when it failed.
ForceFetchedRetries(c) ==
    /\ ~Crashed
    /\ c \in Callers /\ pc[c] = "wait" /\ got[c].set
    /\ call[c].c.NeedForceRefresh
    /\ LET g == getResource(got[c])
       IN  /\ res' = Upd(res, c, g)
           /\ IF g.panic \/ g.err # NoErr
              THEN /\ pc' = Upd(pc, c, "fetch")
                   /\ got' = Upd(got, c, NoGot)
              ELSE /\ pc' = Upd(pc, c, "force_write")
                   /\ UNCHANGED got
    /\ UNCHANGED <<call, ctxDone, ret, m, store, now, flightSeq, calls, h>>

\* GetHit after getResource on the force-refresh path (lines 84-88).
ForceFetched(c) ==
    /\ ~Crashed
    /\ c \in Callers /\ pc[c] = "wait" /\ got[c].set
    /\ call[c].c.NeedForceRefresh
    /\ LET g == getResource(got[c])
       IN  /\ res' = Upd(res, c, g)
           /\ IF g.panic
              THEN /\ pc' = Upd(pc, c, "panicked")
                   /\ UNCHANGED ret
              ELSE IF g.err # NoErr
              THEN /\ pc' = Upd(pc, c, "done")
                   /\ ret' = Upd(ret, c, Ret("", FALSE, g.err))
              ELSE /\ pc' = Upd(pc, c, "force_write")
                   /\ UNCHANGED ret
    /\ CtxAfter(c)
    /\ UNCHANGED <<call, m, got, store, now, flightSeq, calls, h>>

\* GetHit after getResource on the miss path (lines 101-112): the write-back
\* is left to a goroutine.
MissFetched(c) ==
    /\ ~Crashed
    /\ c \in Callers /\ pc[c] = "wait" /\ got[c].set
    /\ ~call[c].c.NeedForceRefresh
    /\ LET g == getResource(got[c])
       IN  IF g.panic
           THEN /\ pc' = Upd(pc, c, "panicked")
                /\ res' = Upd(res, c, g)
                /\ UNCHANGED <<ret, call, got, h>>
           ELSE IF g.err # NoErr
           THEN /\ pc' = Upd(pc, c, "done")
                /\ res' = Upd(res, c, g)
                /\ ret' = Upd(ret, c, Ret("", FALSE, g.err))
                /\ UNCHANGED <<call, got, h>>
           ELSE /\ HasFree
                /\ pc' = Upd2(pc, c, "done", NextFree, "bg_write")
                /\ ret' = Upd(ret, c, Ret(g.data, FALSE, NoErr))
                /\ call' = Upd(call, NextFree,
                               CallOf("writeback", call[c].key, call[c].c, ""))
                /\ res' = Upd2(res, c, g, NextFree,
                               Locals(g.data, g.needFastRequery))
                /\ got' = Upd(got, NextFree, NoGot)
                /\ h' = Upd(h, NextFree, [NoHist EXCEPT !.owner = c])
    /\ CtxAfter(c)
    /\ UNCHANGED <<m, store, now, flightSeq, calls>>

\* The refresh goroutine after getResource (lines 122-126): the error is
\* logged and setData follows in either case.
RefreshFetched(t) ==
    /\ ~Crashed
    /\ t \in Tasks /\ pc[t] = "wait" /\ got[t].set
    /\ LET g == getResource(got[t])
       IN  /\ res' = Upd(res, t, g)
           /\ pc' = Upd(pc, t, IF g.panic THEN "panicked" ELSE "bg_write")
    /\ UNCHANGED <<call, ctxDone, ret, m, got, store, now, flightSeq, calls, h>>

\* ---- CacheProxy.setData ----
\* A write under the context of a caller that has cancelled it.
CallerOutcomes == {NoErr, StoreErr, CtxErr}

\* context.Background() is never cancelled.
BackgroundOutcomes == {NoErr, StoreErr}

\* The write of process p at the clock's time, failing with e or applied.
SetData(p, key, data, nfr, e) ==
    LET cc == call[p].c
        sv == setDataView(data, nfr, now)
    IN  /\ store' = IF e = NoErr
                    THEN RedisCacheSet(key, sv, cc.ExpiredTime, cc.EmptyExpiredTime,
                                       now)
                    ELSE store
        /\ h' = Upd(h, p,
                    [Written(h[p], sv,
                             SelectExpired(sv, cc.ExpiredTime, cc.EmptyExpiredTime), e)
                     EXCEPT !.cancelled = @ \/ ctxDone[p]])

\* A force-refresh path that reports its result as a hit.
forceReturnAsHit(data, err) ==
    IF err # NoErr
    THEN [data |-> "", hit |-> FALSE, err |-> err]
    ELSE [data |-> data, hit |-> TRUE, err |-> NoErr]

\* A force-refresh path that logs the write error instead of returning it.
forceReturnDropsErr(data, err) == [data |-> data, hit |-> FALSE, err |-> NoErr]

\* What GetHit returns after the synchronous write (lines 88-92).
forceReturn(data, err) ==
    IF err # NoErr THEN Ret("", FALSE, err) ELSE Ret(data, FALSE, NoErr)

ForceWrite(c) ==
    /\ ~Crashed
    /\ pc[c] = "force_write"
    /\ \E e \in BackgroundOutcomes :
         /\ SetData(c, call[c].key, res[c].data, res[c].needFastRequery, e)
         /\ ret' = Upd(ret, c, forceReturn(res[c].data, e))
    /\ pc' = Upd(pc, c, "done")
    /\ CtxAfter(c)
    /\ UNCHANGED <<call, res, m, got, now, flightSeq, calls>>

\* A write-back whose error reaches the caller that started it.
BgWriteSurfaces(t) ==
    /\ ~Crashed
    /\ pc[t] = "bg_write"
    /\ \E e \in BackgroundOutcomes :
         /\ SetData(t, call[t].key, res[t].data, res[t].needFastRequery, e)
         /\ ret' = IF e # NoErr /\ h[t].owner # None
                   THEN Upd(ret, h[t].owner, [data |-> "", hit |-> FALSE, err |-> e])
                   ELSE ret
    /\ pc' = Upd(pc, t, "free")
    /\ UNCHANGED <<call, ctxDone, res, m, got, now, flightSeq, calls>>

\* The goroutines' setData (lines 107 and 126): the error is logged.
BgWrite(t) ==
    /\ ~Crashed
    /\ pc[t] = "bg_write"
    /\ \E e \in BackgroundOutcomes :
         SetData(t, call[t].key, res[t].data, res[t].needFastRequery, e)
    /\ pc' = Upd(pc, t, "free")
    /\ UNCHANGED <<call, ctxDone, res, ret, m, got, now, flightSeq, calls>>

\* ---- CacheProxy.Set ----
Set(c, cc, key, value) ==
    /\ MayCall(c)
    /\ calls' = calls + 1
    /\ call' = Upd(call, c, CallOf("Set", key, cc, value))
    /\ res' = Upd(res, c, NoRes)
    /\ got' = Upd(got, c, NoGot)
    /\ pc' = Upd(pc, c, "done")
    /\ LET sv == setDataView(value, FALSE, now)
           ttl == SelectExpired(sv, cc.ExpiredTime, cc.EmptyExpiredTime)
           h0 == HistAtCall(c, key)
       IN  IF invalidKey(key)
           THEN /\ ret' = Upd(ret, c, Ret("", FALSE, ErrInvalidKey))
                /\ h' = h0
                /\ UNCHANGED store
           ELSE \E e \in BackgroundOutcomes :
                  /\ ret' = Upd(ret, c, Ret("", FALSE, e))
                  /\ h' = Upd(h0, c, Written(h0[c], sv, ttl, e))
                  /\ store' = IF e = NoErr
                              THEN RedisCacheSet(key, sv, cc.ExpiredTime,
                                                 cc.EmptyExpiredTime, now)
                              ELSE store
    /\ UNCHANGED <<ctxDone, m, now, flightSeq>>

\* ---- CacheProxy.Remove ----
Remove(c, key) ==
    /\ MayCall(c)
    /\ calls' = calls + 1
    /\ call' = Upd(call, c, CallOf("Remove", key, NoContext, ""))
    /\ res' = Upd(res, c, NoRes)
    /\ got' = Upd(got, c, NoGot)
    /\ pc' = Upd(pc, c, "done")
    /\ LET h0 == HistAtCall(c, key)
       IN  IF invalidKey(key)
           THEN /\ ret' = Upd(ret, c, Ret("", FALSE, ErrInvalidKey))
                /\ h' = h0
                /\ UNCHANGED store
           ELSE \E e \in BackgroundOutcomes :
                  /\ ret' = Upd(ret, c, Ret("", FALSE, e))
                  /\ h' = Upd(h0, c, Written(h0[c], NilView, 0, e))
                  /\ store' = IF e = NoErr THEN RedisCacheRemove(key) ELSE store
    /\ UNCHANGED <<ctxDone, m, now, flightSeq>>

\* ---- the environment ----
\* The caller cancels the context of its call, or its deadline passes.
Cancel(c) ==
    /\ ~Crashed
    /\ c \in Callers /\ ~Resting(c) /\ ~ctxDone[c]
    /\ ctxDone' = Upd(ctxDone, c, TRUE)
    /\ UNCHANGED <<pc, call, res, ret, m, got, store, now, flightSeq, calls, h>>

Tick ==
    /\ ~Crashed
    /\ now < MaxTime
    /\ now' = now + 1
    /\ UNCHANGED <<pc, call, ctxDone, res, ret, m, got, store, flightSeq, calls, h>>

Next ==
    \/ \E c \in Callers, cc \in GetHitContext, key \in Keys : GetHit(c, cc, key)
    \/ \E c \in Callers : CacheGet(c)
    \/ \E p \in Procs : Do(p)
    \/ \E p \in Procs : GetterReturn(p)
    \/ \E c \in Callers : ForceFetched(c)
    \/ \E c \in Callers : MissFetched(c)
    \/ \E t \in Tasks : RefreshFetched(t)
    \/ \E c \in Callers : ForceWrite(c)
    \/ \E t \in Tasks : BgWrite(t)
    \/ \E c \in Callers, cc \in SetContext, key \in Keys, v \in Values :
         Set(c, cc, key, v)
    \/ \E c \in Callers, key \in Keys : Remove(c, key)
    \/ \E c \in Callers : Cancel(c)
    \/ Tick

Spec == Init /\ [][Next]_vars

(***************************************************************************)
(* StringView.IsExpire on its own: a stored view, the two offsets of a     *)
(* policy and the clock are drawn from bounded sets, and the first caller  *)
(* takes the branch that sv.IsExpire(normalOffset, fastOffset) selects.    *)
(***************************************************************************)
Offsets == 0..MaxOffset

InitIsExpire ==
    /\ pc = [p \in Procs |-> IF p \in Callers THEN "idle" ELSE "free"]
    /\ \E cc \in [NeedForceRefresh : {FALSE}, NeedCacheRefresh : {TRUE},
                   RefreshOffset : Offsets, FastRefreshOffset : Offsets,
                   ExpiredTime : {NoContext.ExpiredTime},
                   EmptyExpiredTime : {NoContext.EmptyExpiredTime}] :
         call = [p \in Procs |-> IF p = 1 THEN CallOf("IsExpire", "k", cc, "")
                                          ELSE NoCall]
    /\ ctxDone = [p \in Procs |-> FALSE]
    /\ res = [p \in Procs |-> NoRes]
    /\ ret = [p \in Procs |-> NoRet]
    /\ m = [k \in Keys |-> None]
    /\ got = [p \in Procs |-> NoGot]
    /\ \E ctime \in 0..MaxTime, nfr \in BOOLEAN :
         store = [k \in Keys |->
                    IF k = "k"
                    THEN [present |-> TRUE, sv |-> StringView(ctime, nfr, FALSE, "a"),
                          expireAt |-> NoExpiry]
                    ELSE NoEntry]
    /\ now \in 1..MaxTime
    /\ flightSeq = 0
    /\ calls = 0
    /\ h = [p \in Procs |-> NoHist]

Expire ==
    /\ pc[1] = "idle"
    /\ pc' = Upd(pc, 1, IF IsExpire(store["k"].sv, call[1].c.RefreshOffset,
                                    call[1].c.FastRefreshOffset, now)
                        THEN "expired" ELSE "fresh")
    /\ UNCHANGED <<call, ctxDone, res, ret, m, got, store, now, flightSeq, calls, h>>

NextIsExpire == Expire

SpecIsExpire == InitIsExpire /\ [][NextIsExpire]_vars

(***************************************************************************)
(* The claims.                                                             *)
(***************************************************************************)
OnKey(p) == call[p].key
IsGetHit(c) == call[c].op = "GetHit" /\ pc[c] # "idle"
ForceCall(c) == IsGetHit(c) /\ OnKey(c) # "" /\ call[c].c.NeedForceRefresh
\* A GetHit that read the store, found nothing and went to the origin.
MissCall(c) ==
    /\ IsGetHit(c) /\ OnKey(c) # "" /\ ~call[c].c.NeedForceRefresh
    /\ h[c].storeReads = 1 /\ ~h[c].seen.exist /\ h[c].flightOf # 0
\* getResource has returned to the process (or panicked in it).
Fetched(p) == got[p].set /\ pc[p] # "wait"
Ended(c) == pc[c] \in {"done", "panicked"}
\* What getResource owes its caller for what the getter returned.
Owed(f) ==
    IF f.err # NoErr
    THEN [data |-> "", needFastRequery |-> FALSE, err |-> f.err, panic |-> FALSE]
    ELSE [data |-> f.data, needFastRequery |-> f.needFastRequery, err |-> NoErr,
          panic |-> FALSE]
TasksOf(c) == {t \in Tasks : h[t].owner = c}

\* C1: for every key at most one execution of the origin getter is in
\* flight, whichever of the miss path, the force-refresh path and the
\* refresh goroutine the calls come from.
C1_OneFetchPerKey ==
    \A k \in Keys : Cardinality({p \in Procs : pc[p] = "origin" /\ OnKey(p) = k}) <= 1

\* A call waits on the fetch another process runs for its key.
C1_Witness ==
    \E p, q \in Procs :
        /\ p # q /\ pc[p] = "origin" /\ pc[q] = "wait" /\ ~got[q].set
        /\ OnKey(p) = OnKey(q) /\ h[q].joined

\* C2: every process that shared one fetch gets from getResource the same
\* payload, the same needsFastRequery flag and the same error, namely what
\* the single execution of the getter produced.
C2_SameOutcome ==
    /\ \A p \in Procs : Fetched(p) => res[p] = Owed(h[p].fetched)
    /\ \A p, q \in Procs :
         (Fetched(p) /\ Fetched(q) /\ h[p].flightOf = h[q].flightOf)
             => res[p] = res[q]

\* C3: when every caller runs GetHit (no force, no background refresh) on
\* a key the store does not hold and all of them share the fetch, the
\* getter has run exactly once and all calls returned the same payload and
\* the same error.
C3_ColdCoalesced ==
    (\A c \in Callers :
        /\ MissCall(c) /\ ~call[c].c.NeedCacheRefresh /\ Ended(c)
        /\ h[c].flightOf = h[1].flightOf)
    => /\ Cardinality({c \in Callers : h[c].originBy = 1}) = 1
       /\ \A c \in Callers : h[c].originBy <= 1
       /\ \A c \in Callers :
            /\ pc[c] = "done"
            /\ ret[c] = Ret(Owed(h[c].fetched).data, FALSE, h[c].fetched.err)
            /\ ret[c] = ret[1]

\* C4: the cancellation of one caller's context does not cancel the shared
\* fetch: a process that has not cancelled its own context is never handed
\* a cancellation as the result of the fetch.
C4_SharedFetchNotCancelled ==
    \A q \in Procs :
        (pc[q] = "wait" /\ got[q].set /\ ~ctxDone[q]) => got[q].err # CtxErr

\* C5: when the getter fails on the force-refresh or the miss path, GetHit
\* returns ("", false, err) with the getter's error, and the call writes
\* nothing to the store, neither itself nor through a goroutine.
C5_OriginErrorReturned ==
    \A c \in Callers :
        (IsGetHit(c) /\ Fetched(c) /\ h[c].fetched.err # NoErr)
        => /\ pc[c] = "done"
           /\ ret[c] = Ret("", FALSE, h[c].fetched.err)
           /\ h[c].storeWrites = 0
           /\ TasksOf(c) = {}

\* C6: when the getter returns, every process of the fetch is handed its
\* result and the key is free; a GetHit that was handed the result goes on
\* to return; a call that finds the key free runs the getter anew and holds
\* no earlier result.
C6_DeliveredThenFree ==
    [][\A p \in Procs :
        /\ (pc[p] = "origin" /\ pc'[p] # "origin")
            => /\ m'[OnKey(p)] = None
               /\ \A q \in Sharers(p) : got'[q].set /\ got'[q] = got'[p]
        /\ (p \in Callers /\ pc[p] = "wait" /\ got[p].set /\ pc'[p] # "wait")
            => pc'[p] \in {"done", "force_write"}
        /\ (pc[p] = "fetch" /\ m[OnKey(p)] = None /\ pc'[p] # "fetch")
            => /\ pc'[p] = "origin" /\ ~got'[p].set
               /\ h'[p].flightOf > flightSeq]_vars

\* C7: GetHit with the empty key returns ("", false, nil) under every
\* policy, and neither reads nor writes the store, nor runs the getter, nor
\* leaves a goroutine behind.
C7_EmptyKey ==
    /\ \A c \in Callers :
         (IsGetHit(c) /\ OnKey(c) = "")
         => /\ pc[c] = "done"
            /\ ret[c] = Ret("", FALSE, NoErr)
            /\ h[c].storeReads = 0 /\ h[c].storeWrites = 0
            /\ h[c].originBy = 0 /\ h[c].flightOf = 0
            /\ TasksOf(c) = {}
    /\ m[""] = None
    /\ store[""] = NoEntry

C7_Witness ==
    \E c \in Callers :
        /\ IsGetHit(c) /\ OnKey(c) = "" /\ call[c].c.NeedForceRefresh
        /\ pc[c] = "done"

\* C8: GetHit with NeedForceRefresh never reads the store; the call that
\* starts its fetch runs the getter exactly once (a call that joins a fetch
\* in flight runs nothing), and when the call returns without error it
\* returns the payload of that fetch with wasHit = false, whatever the store
\* held.
C8_ForceRefreshBypass ==
    \A c \in Callers :
        ForceCall(c)
        => /\ h[c].storeReads = 0
           /\ h[c].originBy <= 1
           /\ (~h[c].joined /\ pc[c] \in {"origin", "wait", "force_write", "done",
                                            "panicked"})
                => h[c].originBy = 1
           /\ (pc[c] = "done" /\ ret[c].err = NoErr)
                => ret[c] = Ret(h[c].fetched.data, FALSE, NoErr)

\* The key held a fresh value other than the one the call returned.
C8_Witness ==
    \E c \in Callers :
        /\ ForceCall(c) /\ pc[c] = "done" /\ ret[c].err = NoErr
        /\ h[c].originBy = 1
        /\ h[c].before.exist
        /\ ~IsExpire(h[c].before.sv, call[c].c.RefreshOffset,
                     call[c].c.FastRefreshOffset, now)
        /\ h[c].before.sv.Data # ret[c].data

\* C9: on the force-refresh path the write is part of the call: a call
\* that returned without error has applied the write of the payload it
\* returns, and a call whose write failed returns ("", false, err) with the
\* write's error; no goroutine is left to write.
C9_ForceWriteSync ==
    \A c \in Callers :
        (ForceCall(c) /\ pc[c] = "done")
        => /\ h[c].storeWrites <= 1
           /\ TasksOf(c) = {}
           /\ ret[c].err = NoErr
                => /\ h[c].storeWrites = 1 /\ h[c].wrote.done
                   /\ h[c].wrote.sv.Data = ret[c].data
           /\ (h[c].storeWrites = 1 /\ h[c].wrote.err # NoErr)
                => ret[c] = Ret("", FALSE, h[c].wrote.err)

C9_Witness ==
    \E c \in Callers :
        /\ ForceCall(c) /\ pc[c] = "done"
        /\ h[c].storeWrites = 1 /\ h[c].wrote.err = StoreErr
        /\ ret[c] = Ret("", FALSE, StoreErr)

\* The second GetHit of C10: c2 read what the write-back t of c1's call
\* wrote.
HitAfterMiss(c1, t, c2) ==
    /\ c1 # c2
    /\ MissCall(c1) /\ pc[c1] = "done" /\ ret[c1].err = NoErr
    /\ h[t].owner = c1 /\ call[t].op = "writeback" /\ h[t].wrote.done
    /\ IsGetHit(c2) /\ ~call[c2].c.NeedForceRefresh /\ OnKey(c2) = OnKey(c1)
    /\ pc[c2] = "done"
    /\ h[c2].seen.exist /\ h[c2].seen.sv = h[t].wrote.sv

\* C10: GetHit on a key the store does not hold returns the getter's
\* payload with wasHit = false; a second GetHit that reads what the
\* write-back of the first wrote returns the same payload with wasHit =
\* true and runs no getter, and while the value is fresh it starts no
\* refresh.
C10_MissThenHit ==
    /\ \A c \in Callers :
         (MissCall(c) /\ pc[c] = "done" /\ ret[c].err = NoErr)
         => ret[c] = Ret(h[c].fetched.data, FALSE, NoErr)
    /\ \A c1, c2 \in Callers, t \in Tasks :
         HitAfterMiss(c1, t, c2)
         => /\ ret[c2] = Ret(ret[c1].data, TRUE, NoErr)
            /\ h[c2].originBy = 0 /\ h[c2].flightOf = 0
            /\ ~IsExpire(h[c2].seen.sv, call[c2].c.RefreshOffset,
                         call[c2].c.FastRefreshOffset, now)
                 => TasksOf(c2) = {}

C10_Witness ==
    \E c1, c2 \in Callers, t \in Tasks :
        /\ HitAfterMiss(c1, t, c2)
        /\ ret[c1].data = "b" /\ ret[c2].hit
        /\ h[c1].originBy = 1

\* A non-force GetHit of c whose store read is this step and succeeds.
ReadStep(c) ==
    /\ IsGetHit(c) /\ pc[c] = "read" /\ pc'[c] # "read"
    /\ h'[c].readErr = NoErr
\* What that read finds for the key.
Held(c) == store[OnKey(c)]
StaleFor(c, sv) ==
    IsExpire(sv, call[c].c.RefreshOffset, call[c].c.FastRefreshOffset, now)

\* C11: a GetHit with NeedCacheRefresh that reads a stale value returns the
\* stored payload with wasHit = true in the step of the read: no getter
\* has run for it and nothing has been written; the goroutine it leaves has
\* not yet asked for the fetch.
C11_StaleHitReturnsAtOnce ==
    [][\A c \in Callers :
        (/\ ReadStep(c) /\ Live(Held(c), now)
         /\ call[c].c.NeedCacheRefresh /\ StaleFor(c, Held(c).sv))
        => /\ pc'[c] = "done"
           /\ ret'[c] = Ret(Held(c).sv.Data, TRUE, NoErr)
           /\ store' = store /\ m' = m /\ flightSeq' = flightSeq
           /\ h'[c].originBy = 0 /\ h'[c].flightOf = 0 /\ h'[c].storeWrites = 0
           /\ \A t \in Tasks :
                h'[t].owner = c
                => /\ pc'[t] = "fetch" /\ ~got'[t].set
                   /\ h'[t].originBy = 0 /\ h'[t].storeWrites = 0]_vars

\* The call has returned the old payload while the fetch of its refresh is
\* still running.
C11_Witness ==
    \E c \in Callers, t \in Tasks :
        /\ IsGetHit(c) /\ pc[c] = "done" /\ ret[c] = Ret("a", TRUE, NoErr)
        /\ h[t].owner = c /\ call[t].op = "refresh" /\ pc[t] = "origin"

\* C12: when the refresh goroutine's fetch succeeded and its write is
\* applied, the store holds the fetched payload and flag with the time of
\* the write as creation time; a GetHit that reads that entry returns the
\* fetched payload with wasHit = true.
C12_RefreshRewrites ==
    [][/\ \A t \in Tasks :
            (/\ pc[t] = "bg_write" /\ call[t].op = "refresh" /\ pc'[t] # "bg_write"
             /\ h[t].fetched.err = NoErr /\ h'[t].wrote.done)
            => /\ store'[OnKey(t)].present
               /\ store'[OnKey(t)].sv =
                    [Ctime |-> now, NeedFastRequery |-> h[t].fetched.needFastRequery,
                     IsNil |-> FALSE, Data |-> h[t].fetched.data]
       /\ \A c \in Callers, t \in Tasks :
            (/\ ReadStep(c) /\ Live(Held(c), now)
             /\ call[t].op = "refresh" /\ OnKey(t) = OnKey(c)
             /\ h[t].wrote.done /\ Held(c).sv = h[t].wrote.sv)
            => /\ pc'[c] = "done"
               /\ ret'[c] = Ret(h[t].fetched.data, TRUE, NoErr)]_vars

\* A GetHit read what the refresh wrote in place of the stale "a".
C12_Witness ==
    \E c \in Callers, t \in Tasks :
        /\ call[t].op = "refresh" /\ h[t].wrote.done /\ h[t].fetched.data = "b"
        /\ IsGetHit(c) /\ pc[c] = "done" /\ OnKey(c) = OnKey(t)
        /\ h[c].seen.exist /\ h[c].seen.sv = h[t].wrote.sv
        /\ h[c].seen.sv.Ctime > 1
        /\ ret[c] = Ret("b", TRUE, NoErr)

\* C13: when the getter fails in the refresh goroutine, the goroutine ends
\* there: the process goes on, the goroutine writes nothing and the stored
\* value stays.
C13_RefreshFailureContained ==
    \A t \in Tasks :
        (call[t].op = "refresh" /\ Fetched(t) /\ h[t].fetched.err # NoErr)
        => /\ ~Crashed
           /\ pc[t] # "bg_write"
           /\ h[t].storeWrites = 0

\* C14: the step in which the write-back of a miss ends, applied or
\* failed, changes what no caller holds or does; the call that started it
\* has returned (payload, false, nil).
C14_WriteBackErrorSwallowed ==
    [][\A t \in Tasks :
        (pc[t] = "bg_write" /\ call[t].op = "writeback" /\ pc'[t] # "bg_write")
        => /\ ret' = ret
           /\ \A c \in Callers : pc'[c] = pc[c]
           /\ h[t].owner # None
                => /\ pc[h[t].owner] = "done"
                   /\ ret[h[t].owner] = Ret(res[t].data, FALSE, NoErr)]_vars

C14_Witness ==
    \E c \in Callers, t \in Tasks :
        /\ h[t].owner = c /\ call[t].op = "writeback"
        /\ h[t].storeWrites = 1 /\ h[t].wrote.err = StoreErr
        /\ MissCall(c) /\ pc[c] = "done" /\ ret[c] = Ret("b", FALSE, NoErr)

\* C15: a GetHit whose store read failed has returned ("", false, err) with
\* the error of the read, has run and joined no fetch, has written nothing
\* and has left no goroutine.
C15_ReadErrorReturned ==
    \A c \in Callers :
        (IsGetHit(c) /\ h[c].readErr # NoErr)
        => /\ pc[c] = "done"
           /\ ret[c] = Ret("", FALSE, h[c].readErr)
           /\ h[c].originBy = 0 /\ h[c].flightOf = 0
           /\ h[c].storeWrites = 0
           /\ TasksOf(c) = {}

C15_Witness ==
    \E c \in Callers :
        /\ IsGetHit(c) /\ ~call[c].c.NeedForceRefresh /\ h[c].storeReads = 1
        /\ h[c].readErr = StoreErr /\ h[c].before.exist
        /\ ret[c] = Ret("", FALSE, StoreErr)

\* The step is a write of process p: the setData of a goroutine or of the
\* force-refresh path, or a call of Set that reaches the store.
WriteStep(p) ==
    \/ pc[p] \in {"force_write", "bg_write"} /\ pc'[p] # pc[p]
    \/ /\ calls' = calls + 1 /\ h'[p].seq = calls'
       /\ call'[p].op = "Set" /\ h'[p].storeWrites = 1

\* C16: every write of a StringView is issued with EmptyExpiredTime when
\* the payload is empty and with ExpiredTime otherwise, and the entry it
\* leaves expires that long after the write.
C16_TTLByEmptiness ==
    [][\A p \in Procs :
        WriteStep(p)
        => LET w == h'[p].wrote
               cc == call'[p].c
               ttl == IF w.sv.Data = "" THEN cc.EmptyExpiredTime ELSE cc.ExpiredTime
           IN  /\ w.ttl = ttl
               /\ w.done => /\ store'[call'[p].key].present
                            /\ store'[call'[p].key].sv = w.sv
                            /\ store'[call'[p].key].expireAt = now + ttl]_vars

\* C17: IsExpire is false when Ctime is unset; otherwise it is true exactly
\* when Ctime plus the offset is before the clock, the offset being
\* fastOffset when NeedFastRequery is set and normalOffset otherwise. With
\* fastOffset < elapsed < normalOffset a flagged value is stale and an
\* unflagged one is not.
C17_IsExpire ==
    pc[1] \in {"expired", "fresh"}
    => LET v == store["k"].sv
           normalOffset == call[1].c.RefreshOffset
           fastOffset == call[1].c.FastRefreshOffset
           elapsed == now - v.Ctime
       IN  /\ v.Ctime = ZeroTime => pc[1] = "fresh"
           /\ v.Ctime # ZeroTime
                => /\ v.NeedFastRequery
                        => (pc[1] = "expired" <=> v.Ctime + fastOffset < now)
                   /\ ~v.NeedFastRequery
                        => (pc[1] = "expired" <=> v.Ctime + normalOffset < now)
                   /\ (fastOffset < elapsed /\ elapsed < normalOffset)
                        => (pc[1] = "expired" <=> v.NeedFastRequery)

\* A flagged value found stale between the two offsets.
C17_Witness ==
    /\ pc[1] = "expired"
    /\ store["k"].sv.Ctime # ZeroTime /\ store["k"].sv.NeedFastRequery
    /\ call[1].c.FastRefreshOffset < now - store["k"].sv.Ctime
    /\ now - store["k"].sv.Ctime < call[1].c.RefreshOffset

\* C18: a GetHit that reads a value that is not stale returns the stored
\* payload with wasHit = true in the step of the read, under either value
\* of NeedCacheRefresh; the step starts no fetch and no goroutine and writes
\* nothing.
C18_FreshHitQuiet ==
    [][\A c \in Callers :
        (ReadStep(c) /\ Live(Held(c), now) /\ ~StaleFor(c, Held(c).sv))
        => /\ pc'[c] = "done"
           /\ ret'[c] = Ret(Held(c).sv.Data, TRUE, NoErr)
           /\ store' = store /\ m' = m /\ flightSeq' = flightSeq
           /\ h'[c].originBy = 0 /\ h'[c].flightOf = 0 /\ h'[c].storeWrites = 0
           /\ \A t \in Tasks : pc'[t] = pc[t] /\ h'[t] = h[t]]_vars

\* A fresh hit under NeedCacheRefresh with nothing started in the process.
C18_Witness ==
    \E c \in Callers :
        /\ IsGetHit(c) /\ pc[c] = "done" /\ call[c].c.NeedCacheRefresh
        /\ h[c].seen.exist /\ ~StaleFor(c, h[c].seen.sv)
        /\ ret[c] = Ret("a", TRUE, NoErr)
        /\ flightSeq = 0 /\ \A t \in Tasks : pc[t] = "free" /\ h[t] = NoHist

\* getResource returns to process p in this step, after a fetch that
\* succeeded.
FetchedStep(p) ==
    pc[p] = "wait" /\ got[p].set /\ pc'[p] # "wait" /\ h[p].fetched.err = NoErr

\* C19: the writes of the force-refresh path and of the goroutines do not
\* depend on the caller's context. After a fetch that succeeded the write
\* follows: the force-refresh call goes on to its write, the miss leaves a
\* goroutine at its write, the refresh goroutine goes on to its write. A
\* cancellation moves no process away from its write, and the write never
\* fails with the cancellation: it is applied unless the store fails.
C19_WritesOutliveCancel ==
    [][/\ \A c \in Callers :
            FetchedStep(c)
            => IF call[c].c.NeedForceRefresh
               THEN pc'[c] = "force_write"
               ELSE \E t \in Tasks :
                      /\ pc[t] = "free" /\ pc'[t] = "bg_write"
                      /\ call'[t].key = OnKey(c) /\ res'[t].data = h[c].fetched.data
       /\ \A t \in Tasks : FetchedStep(t) => pc'[t] = "bg_write"
       /\ \A p \in Procs :
            (pc[p] \in {"force_write", "bg_write"} /\ pc'[p] # pc[p])
            => /\ h'[p].storeWrites = h[p].storeWrites + 1
               /\ h'[p].wrote.err # CtxErr
               /\ h'[p].wrote.done => store'[OnKey(p)].sv = h'[p].wrote.sv
       /\ \A p \in Procs :
            (/\ pc[p] \in {"force_write", "bg_write"}
             /\ \E c \in Callers : ~ctxDone[c] /\ ctxDone'[c])
            => pc'[p] = pc[p] /\ res'[p] = res[p]]_vars

\* A force-refresh call wrote under a cancelled context, and a write-back
\* was applied after its call had ended.
C19_Witness ==
    /\ \E c \in Callers :
         /\ ForceCall(c) /\ pc[c] = "done" /\ h[c].cancelled
         /\ h[c].wrote.done /\ ret[c].err = NoErr
    /\ \E t \in Tasks :
         call[t].op = "writeback" /\ h[t].wrote.done /\ pc[t] = "free"

\* C20: a Set that reaches the store leaves the view (now, false, false,
\* value); a GetHit without force that reads that entry before it expires
\* returns the value with wasHit = true.
C20_SetThenHit ==
    [][/\ \A c \in Callers :
            (/\ calls' = calls + 1 /\ h'[c].seq = calls'
             /\ call'[c].op = "Set" /\ h'[c].wrote.done)
            => /\ store'[call'[c].key].present
               /\ store'[call'[c].key].sv =
                    [Ctime |-> now, NeedFastRequery |-> FALSE, IsNil |-> FALSE,
                     Data |-> call'[c].value]
       /\ \A c1, c2 \in Callers :
            (/\ c1 # c2 /\ ReadStep(c2) /\ Live(Held(c2), now)
             /\ call[c1].op = "Set" /\ OnKey(c1) = OnKey(c2)
             /\ h[c1].wrote.done /\ Held(c2).sv = h[c1].wrote.sv)
            => /\ pc'[c2] = "done"
               /\ ret'[c2] = Ret(call[c1].value, TRUE, NoErr)]_vars

C20_Witness ==
    \E c1, c2 \in Callers :
        /\ call[c1].op = "Set" /\ h[c1].wrote.done /\ call[c1].value = "a"
        /\ h[c1].wrote.sv.Ctime > 1
        /\ IsGetHit(c2) /\ ~call[c2].c.NeedForceRefresh /\ OnKey(c2) = OnKey(c1)
        /\ pc[c2] = "done" /\ h[c2].seen.exist /\ h[c2].seen.sv = h[c1].wrote.sv
        /\ ret[c2] = Ret("a", TRUE, NoErr)

\* The step is the call op of caller c.
CallStep(c, op) ==
    calls' = calls + 1 /\ h'[c].seq = calls' /\ call'[c].op = op

\* C21: a Remove that the store carries out returns no error and leaves
\* the key absent, whether the store held the key or not; a GetHit without
\* force that then reads the key, still absent, goes to the origin.
C21_RemoveThenMiss ==
    [][/\ \A c \in Callers :
            (CallStep(c, "Remove") /\ h'[c].wrote.done)
            => /\ ret'[c].err = NoErr
               /\ store'[call'[c].key] = NoEntry
               /\ \A k \in Keys : k # call'[c].key => store'[k] = store[k]
       /\ \A c1, c2 \in Callers :
            (/\ ReadStep(c2) /\ call[c1].op = "Remove" /\ OnKey(c1) = OnKey(c2)
             /\ h[c1].wrote.done /\ Held(c2) = NoEntry)
            => /\ pc'[c2] = "fetch" /\ h'[c2].seen = NoSeen
               /\ ret'[c2] = ret[c2]]_vars

\* A Remove of a key the store did not hold returned nil, and the GetHit
\* after it went to the origin.
C21_Witness ==
    \E c1, c2 \in Callers :
        /\ call[c1].op = "Remove" /\ OnKey(c1) = "k" /\ pc[c1] = "done"
        /\ ~h[c1].before.exist /\ h[c1].wrote.done /\ ret[c1].err = NoErr
        /\ MissCall(c2) /\ OnKey(c2) = "k" /\ h[c2].seq > h[c1].seq

\* C22: no entry of the store is without expiration.
C22_NoEntryWithoutExpiry ==
    \A k \in Keys : store[k].present => store[k].expireAt # NoExpiry

\* C23: a GetHit causes at most one run of the getter, by itself or by the
\* goroutine it leaves, whether the run fails or not; the call itself runs
\* none when it joins a fetch in flight and none when the store serves it.
C23_NoRetry ==
    \A c \in Callers :
        IsGetHit(c)
        => /\ h[c].originBy <= 1
           /\ \A t \in TasksOf(c) : h[t].originBy <= 1
           /\ Cardinality({p \in {c} \cup TasksOf(c) : h[p].originBy = 1}) <= 1
           /\ h[c].joined => h[c].originBy = 0
           /\ h[c].seen.exist => h[c].originBy = 0 /\ h[c].flightOf = 0

\* The one run of the getter failed and the call ended there.
C23_Witness ==
    \E c \in Callers :
        /\ IsGetHit(c) /\ Ended(c) /\ Fetched(c)
        /\ h[c].originBy = 1 /\ h[c].fetched.err = OriginErr
        /\ flightSeq = 1

\* C24: a write that the store carries out replaces the entry of its key,
\* whatever the key held and whenever the data was fetched, and nothing but
\* a write or a Remove changes the store: the entry of a key is what the
\* last write applied to it left.
C24_LastWriteWins ==
    [][/\ \A p \in Procs :
            (WriteStep(p) /\ h'[p].wrote.done)
            => /\ store'[call'[p].key].present
               /\ store'[call'[p].key].sv = h'[p].wrote.sv
               /\ \A k \in Keys : k # call'[p].key => store'[k] = store[k]
       /\ store' # store
            => \E p \in Procs :
                 /\ WriteStep(p) \/ CallStep(p, "Remove")
                 /\ h'[p].wrote.done]_vars

\* Everything has finished, and the store holds the write-back of the
\* earlier fetch, applied after the write of a later one.
C24_Witness ==
    \E t \in Tasks, c1, c2 \in Callers :
        /\ \A p \in Procs : pc[p] \in {"free", "done"}
        /\ call[t].op = "writeback" /\ h[t].owner = c1 /\ h[t].wrote.done
        /\ ForceCall(c2) /\ h[c2].wrote.done
        /\ h[c1].flightOf > 0 /\ h[c1].flightOf < h[c2].flightOf
        /\ h[t].wrote.sv.Data # h[c2].wrote.sv.Data
        /\ store[OnKey(t)].sv = h[t].wrote.sv

\* C25: after a fetch that succeeded, getResource returns to every process
\* of the fetch the payload and the flag the getter returned, and no error;
\* the view written on the force-refresh path, by the write-back of a miss
\* and by the refresh goroutine carries that flag; no GetHit returns the
\* fast-requery marker as its error.
C25_FlagSurvives ==
    /\ \A p \in Procs :
         (Fetched(p) /\ h[p].fetched.err = NoErr)
         => /\ ~res[p].panic /\ res[p].err = NoErr
            /\ res[p].data = h[p].fetched.data
            /\ res[p].needFastRequery = h[p].fetched.needFastRequery
    /\ \A c \in Callers :
         (ForceCall(c) /\ h[c].storeWrites = 1)
         => h[c].wrote.sv.NeedFastRequery = h[c].fetched.needFastRequery
    /\ \A t \in Tasks :
         /\ (call[t].op = "refresh" /\ h[t].storeWrites = 1
             /\ h[t].fetched.err = NoErr)
            => h[t].wrote.sv.NeedFastRequery = h[t].fetched.needFastRequery
         /\ (call[t].op = "writeback" /\ h[t].storeWrites = 1 /\ h[t].owner # None)
            => h[t].wrote.sv.NeedFastRequery = h[h[t].owner].fetched.needFastRequery
    /\ \A c \in Callers :
         IsGetHit(c)
         => /\ ret[c].err # fastRequeryErr
            /\ (MissCall(c) /\ Fetched(c) /\ h[c].fetched.err = NoErr)
                 => ret[c] = Ret(h[c].fetched.data, FALSE, NoErr)

\* A force-refresh call that joined the fetch of another wrote the flag the
\* getter had set.
C25_Witness ==
    \E c \in Callers :
        /\ ForceCall(c) /\ h[c].joined /\ pc[c] = "done"
        /\ h[c].fetched.needFastRequery /\ h[c].wrote.done
        /\ h[c].wrote.sv.NeedFastRequery
        /\ ret[c] = Ret(h[c].fetched.data, FALSE, NoErr)

\* A GetHit without force whose store read succeeded.
HasRead(c) ==
    /\ IsGetHit(c) /\ OnKey(c) # "" /\ ~call[c].c.NeedForceRefresh
    /\ h[c].storeReads = 1 /\ h[c].readErr = NoErr

\* C26: a GetHit without force whose read reports no record, or a view
\* with IsNil set, goes to the origin and does not return a hit; no hit is
\* returned for a view with IsNil set. Every view the proxy writes, and so
\* every entry of the store, has IsNil unset and a creation time.
C26_AbsentIsMiss ==
    /\ \A c \in Callers :
         (HasRead(c) /\ (~h[c].seen.exist \/ h[c].seen.sv.IsNil))
         => /\ pc[c] \in {"fetch", "origin", "wait", "done", "panicked"}
            /\ ~ret[c].hit
            /\ pc[c] = "done" => h[c].flightOf # 0
    /\ \A c \in Callers :
         (IsGetHit(c) /\ ret[c].hit) => (h[c].seen.exist /\ ~h[c].seen.sv.IsNil)
    /\ \A p \in Procs :
         (h[p].storeWrites >= 1 /\ call[p].op # "Remove")
         => ~h[p].wrote.sv.IsNil /\ h[p].wrote.sv.Ctime # ZeroTime
    /\ \A k \in Keys :
         store[k].present => ~store[k].sv.IsNil /\ store[k].sv.Ctime # ZeroTime

\* A read that reported the absent view led to a fetch, and the write-back
\* stored a present one.
C26_Witness ==
    \E c \in Callers, t \in Tasks :
        /\ HasRead(c) /\ h[c].seen = NoSeen /\ h[c].seen.sv.IsNil
        /\ pc[c] = "done" /\ ret[c] = Ret("b", FALSE, NoErr) /\ h[c].originBy = 1
        /\ h[t].owner = c /\ h[t].wrote.done
        /\ store[OnKey(c)].sv = h[t].wrote.sv /\ ~store[OnKey(c)].sv.IsNil

\* C27: a GetHit with neither NeedForceRefresh nor NeedCacheRefresh that
\* reads a live entry returns its payload with wasHit = true in the step of
\* the read, stale or not; the step starts no fetch and no goroutine and
\* writes nothing.
C27_NoRefreshWithoutFlag ==
    [][\A c \in Callers :
        (ReadStep(c) /\ Live(Held(c), now) /\ ~call[c].c.NeedCacheRefresh)
        => /\ pc'[c] = "done"
           /\ ret'[c] = Ret(Held(c).sv.Data, TRUE, NoErr)
           /\ store' = store /\ m' = m /\ flightSeq' = flightSeq
           /\ h'[c].originBy = 0 /\ h'[c].flightOf = 0 /\ h'[c].storeWrites = 0
           /\ \A t \in Tasks : pc'[t] = pc[t] /\ h'[t] = h[t] /\ call'[t] = call[t]]_vars

\* A hit on a value that was stale when it was read, with nothing started.
C27_Witness ==
    \E c \in Callers :
        /\ HasRead(c) /\ ~call[c].c.NeedCacheRefresh /\ pc[c] = "done"
        /\ h[c].seen.exist /\ h[c].seen.sv.NeedFastRequery /\ h[c].seen.sv.Ctime = 1
        /\ ret[c] = Ret("a", TRUE, NoErr)
        /\ flightSeq = 0 /\ \A t \in Tasks : pc[t] = "free" /\ h[t] = NoHist

\* C28: Set and Remove with the empty key return ErrInvalidKey and issue
\* no command to the store, which stays as it was; GetHit with the empty
\* key returns no error.
C28_EmptyKeyRefused ==
    [][\A c \in Callers :
        /\ ((CallStep(c, "Set") \/ CallStep(c, "Remove")) /\ call'[c].key = "")
            => /\ pc'[c] = "done"
               /\ ret'[c] = Ret("", FALSE, ErrInvalidKey)
               /\ h'[c].storeWrites = 0 /\ h'[c].storeReads = 0
               /\ store' = store
        /\ (CallStep(c, "GetHit") /\ call'[c].key = "")
            => /\ pc'[c] = "done"
               /\ ret'[c] = Ret("", FALSE, NoErr)
               /\ store' = store]_vars

\* Both calls were refused while the store held a value.
C28_Witness ==
    \E c1, c2 \in Callers :
        /\ call[c1].op = "Set" /\ OnKey(c1) = "" /\ call[c1].value = "a"
        /\ call[c2].op = "Remove" /\ OnKey(c2) = ""
        /\ ret[c1] = Ret("", FALSE, ErrInvalidKey)
        /\ ret[c2] = Ret("", FALSE, ErrInvalidKey)
        /\ store["k"].present /\ store[""] = NoEntry

====
